---------------------------- MODULE Spec2Model ----------------------------
(***************************************************************************)
(* Model of origin&rpy.py, a Fusion 360 script that exports, for every     *)
(* occurrence of the active design, its origin (metres), roll/pitch/yaw    *)
(* (radians) and mass properties, and shows them in message boxes and on   *)
(* the text console.                                                       *)
(*                                                                         *)
(* Numbers.                                                                *)
(*   - A length, mass, volume or inertia is the IEEE double itself,        *)
(*     [neg, man, exp] = (-1)^neg * man * 2^exp, with man a natural number *)
(*     written in base 2^14 (lowest limb first, odd unless zero).  A       *)
(*     product is rounded to 53 bits, nearest and ties to even, and        *)
(*     f"{v:.6f}" rounds the binary value.  Subnormals, infinities and     *)
(*     NaN are outside the model.                                          *)
(*   - A matrix entry is [neg, n, root]: the number (-1)^neg * n, or       *)
(*     (-1)^neg * sqrt(n) when root holds, over a positive denominator     *)
(*     (den) common to the whole array.  The sign of a zero is kept as     *)
(*     floats keep it; sums, products and square roots of entries are      *)
(*     exact, and numerators stay below 2^15 so that their squares are     *)
(*     machine integers.                                                   *)
(*   - An angle is [neg, x, y]: the sign bit of the angle and the ray it   *)
(*     points along, by the signed square x of its cosine part and the     *)
(*     square y of its sine part, in lowest terms ([neg |-> FALSE,         *)
(*     x |-> 1, y |-> 0] is 0.0, the same with neg is -0.0, x = y = 1 is   *)
(*     pi/4, x = 0 is pi/2, x = -1 and y = 0 is pi).                       *)
(* A read the host refuses raises every time it is attempted.              *)
(***************************************************************************)
EXTENDS Integers, Sequences

VARIABLES pc, design, ui, stdout, calls, arg, ret

vars == <<pc, design, ui, stdout, calls, arg, ret>>

None == "none"

Abs(n) == IF n < 0 THEN -n ELSE n

Min(a, b) == IF a < b THEN a ELSE b

Max(a, b) == IF a > b THEN a ELSE b

\* number of decimal digits of a natural number
RECURSIVE Digits(_)
Digits(n) == IF n < 10 THEN 1 ELSE 1 + Digits(n \div 10)

(***************************************************************************)
(* Natural numbers of any size, as sequences of limbs in base 2^14         *)
(***************************************************************************)
Base == 2 ^ 14

RECURSIVE BigTrim(_)
BigTrim(a) ==
    IF a # <<>> /\ a[Len(a)] = 0 THEN BigTrim(SubSeq(a, 1, Len(a) - 1)) ELSE a

RECURSIVE BigOfNat(_)
BigOfNat(n) == IF n = 0 THEN <<>> ELSE <<n % Base>> \o BigOfNat(n \div Base)

Limb(a, i) == IF i >= 1 /\ i <= Len(a) THEN a[i] ELSE 0

RECURSIVE BigMulFrom(_, _, _, _)
BigMulFrom(a, k, i, carry) ==
    IF i > Len(a) THEN BigOfNat(carry)
    ELSE LET t == a[i] * k + carry
         IN  <<t % Base>> \o BigMulFrom(a, k, i + 1, t \div Base)

\* a * k for a natural number k of at most 16 bits
BigMulSmall(a, k) == BigTrim(BigMulFrom(a, k, 1, 0))

RECURSIVE BigAddFrom(_, _, _, _)
BigAddFrom(a, b, i, carry) ==
    IF i > Len(a) /\ i > Len(b) THEN BigOfNat(carry)
    ELSE LET t == Limb(a, i) + Limb(b, i) + carry
         IN  <<t % Base>> \o BigAddFrom(a, b, i + 1, t \div Base)

BigAdd(a, b) == BigAddFrom(a, b, 1, 0)

RECURSIVE BigMulAt(_, _, _)
BigMulAt(a, b, j) ==
    IF j > Len(b) THEN <<>>
    ELSE BigAdd(BigMulSmall(a, b[j]), <<0>> \o BigMulAt(a, b, j + 1))

BigMul(a, b) == BigTrim(BigMulAt(a, b, 1))

RECURSIVE BitLen(_)
BitLen(n) == IF n = 0 THEN 0 ELSE 1 + BitLen(n \div 2)

BigBitLen(a) == IF a = <<>> THEN 0 ELSE 14 * (Len(a) - 1) + BitLen(a[Len(a)])

\* floor(a / 2^s)
BigShr(a, s) ==
    LET q == s \div 14
        r == s % 14
    IN  BigTrim([i \in 1..Max(Len(a) - q, 0) |->
                    (Limb(a, i + q) \div (2 ^ r))
                    + (Limb(a, i + q + 1) % (2 ^ r)) * (2 ^ (14 - r))])

\* a * 2^s
BigShl(a, s) ==
    IF a = <<>> THEN <<>>
    ELSE [i \in 1..(s \div 14) |-> 0] \o BigMulSmall(a, 2 ^ (s % 14))

\* bit i of a (bit 0 is the lowest)
BigBit(a, i) == (Limb(a, i \div 14 + 1) \div (2 ^ (i % 14))) % 2

\* the s lowest bits of a are zero
BigLowZero(a, s) ==
    /\ \A i \in 1..(s \div 14) : Limb(a, i) = 0
    /\ Limb(a, s \div 14 + 1) % (2 ^ (s % 14)) = 0

RECURSIVE BigDivFrom(_, _, _, _)
BigDivFrom(a, d, i, rem) ==
    IF i = 0 THEN [q |-> <<>>, r |-> rem]
    ELSE LET t == rem * Base + a[i]
             rest == BigDivFrom(a, d, i - 1, t % d)
         IN  [q |-> Append(rest.q, t \div d), r |-> rest.r]

TrimQuotient(x) == [q |-> BigTrim(x.q), r |-> x.r]

\* quotient and remainder of a by d, 0 < d < 2^17
BigDivSmall(a, d) == TrimQuotient(BigDivFrom(a, d, Len(a), 0))

\* a * 10^k
RECURSIVE BigTimes10(_, _)
BigTimes10(a, k) ==
    IF k <= 0 THEN a
    ELSE IF k >= 4 THEN BigTimes10(BigMulSmall(a, 10000), k - 4)
    ELSE BigTimes10(BigMulSmall(a, 10), k - 1)

\* number of decimal digits of a (0 for zero)
RECURSIVE DecDigits(_)
DecDigits(a) ==
    IF a = <<>> THEN 0
    ELSE IF Len(a) = 1 THEN Digits(a[1])
    ELSE 4 + DecDigits(BigDivSmall(a, 10000).q)

\* index of the lowest set bit of a, a # 0, from bit i on
RECURSIVE TrailingZeros(_, _)
TrailingZeros(a, i) == IF BigBit(a, i) = 1 THEN i ELSE TrailingZeros(a, i + 1)

(***************************************************************************)
(* Python floats: IEEE doubles                                             *)
(***************************************************************************)
\* 0.0 and -0.0
Zero(neg) == [neg |-> neg, man |-> <<>>, exp |-> 0]

\* the double (-1)^neg * man * 2^(exp - z), man with z low zero bits
Shifted(neg, man, exp, z) == [neg |-> neg, man |-> BigShr(man, z), exp |-> exp + z]

\* the double (-1)^neg * man * 2^exp, written with an odd mantissa
Canon(neg, man, exp) ==
    IF man = <<>> THEN Zero(neg) ELSE Shifted(neg, man, exp, TrailingZeros(man, 0))

\* q * 2^exp rounded up to (q + 1) * 2^exp when more than half a unit was
\* cut off (guard and more), or exactly half and q is odd
RoundUp(neg, q, exp, guard, more) ==
    Canon(neg, IF guard /\ (more \/ q[1] % 2 = 1) THEN BigAdd(q, <<1>>) ELSE q, exp)

\* big * 2^exp with its s lowest bits rounded away
RoundAt(neg, big, exp, sticky, s) ==
    RoundUp(neg, BigShr(big, s), exp + s, BigBit(big, s - 1) = 1,
            sticky \/ ~BigLowZero(big, s - 1))

\* the double nearest to a number between big * 2^exp and (big + 1) * 2^exp
\* (ties to even); sticky says that the number is above big * 2^exp
Round53(neg, big, exp, sticky) ==
    IF BigBitLen(big) <= 53 THEN Canon(neg, big, exp)
    ELSE RoundAt(neg, big, exp, sticky, BigBitLen(big) - 53)

\* a over 10^k, rounded down; sticky says that something was cut off
RECURSIVE DivTens(_, _, _)
RECURSIVE DivTensNext(_, _, _)
DivTens(a, k, sticky) ==
    IF k = 0 THEN [q |-> a, sticky |-> sticky]
    ELSE DivTensNext(BigDivSmall(a, 10 ^ Min(k, 4)), k - Min(k, 4), sticky)

DivTensNext(d, k, sticky) == DivTens(d.q, k, sticky \/ d.r # 0)

RoundQuotient(neg, d, exp) == Round53(neg, d.q, exp, d.sticky)

\* |m| * 10^e for e < 0, from the quotient of |m| * 2^(14 * k) by 10^(-e)
FloatOver(neg, a, e, k) ==
    RoundQuotient(neg, DivTens([i \in 1..k |-> 0] \o a, -e, FALSE), -14 * k)

\* the double a decimal m * 10^e denotes: a literal of the source, or a
\* value the host returns
Float(m, e) ==
    IF m = 0 THEN Zero(FALSE)
    ELSE IF e >= 0 THEN Round53(m < 0, BigTimes10(BigOfNat(Abs(m)), e), 0, FALSE)
    ELSE FloatOver(m < 0, BigOfNat(Abs(m)), e, 4 + (3 - e) \div 4)

\* a * b on floats
Mul(a, b) ==
    IF a.man = <<>> \/ b.man = <<>> THEN Zero(a.neg # b.neg)
    ELSE Round53(a.neg # b.neg, BigMul(a.man, b.man), a.exp + b.exp, FALSE)

\* q or q + 1: the integer nearest to a number in [q, q + 1], ties to even
NearestOf(q, guard, more) ==
    IF guard /\ (more \/ Limb(q, 1) % 2 = 1) THEN BigAdd(q, <<1>>) ELSE q

\* the integer nearest to t * 2^exp, ties to even
NearestInt(t, exp) ==
    IF exp >= 0 THEN BigShl(t, exp)
    ELSE NearestOf(BigShr(t, -exp), BigBit(t, -exp - 1) = 1, ~BigLowZero(t, -exp - 1))

\* the integer nearest to |v| * 10^k, ties to even
Nearest(v, k) == NearestInt(BigTimes10(v.man, k), v.exp)

\* len(f"{v:.6f}") for a float: sign, integer digits, point, six decimals
Fmt6Len(v) ==
    (IF v.neg THEN 1 ELSE 0) + Max(1, DecDigits(Nearest(v, 6)) - 6) + 7

\* len(f"{a:.6f}") for an angle in [-pi, pi]: sign, one integer digit, point,
\* six decimals
Fmt6LenAngle(a) == (IF a.neg THEN 1 ELSE 0) + 8

(***************************************************************************)
(* Matrix entries, math.sqrt and math.atan2                                *)
(***************************************************************************)
RECURSIVE GCD(_, _)
GCD(a, b) == IF b = 0 THEN a ELSE GCD(b, a % b)

\* the entry with numerator k (a zero is +0.0)
Num(k) == [neg |-> k < 0, n |-> Abs(k), root |-> FALSE]

\* -a on floats: the sign bit flips, of a zero too
Neg(a) == [a EXCEPT !.neg = ~a.neg]

\* a * b on entries
Times(a, b) == [neg |-> a.neg # b.neg, n |-> a.n * b.n, root |-> FALSE]

\* a + b on entries: a sum of zeros is -0.0 only when both are, and an exact
\* cancellation gives +0.0
Plus(a, b) ==
    IF a.n = 0 /\ b.n = 0 THEN [neg |-> a.neg /\ b.neg, n |-> 0, root |-> FALSE]
    ELSE LET s == (IF a.neg THEN -a.n ELSE a.n) + (IF b.neg THEN -b.n ELSE b.n)
         IN  Num(s)

\* math.sqrt(a), a >= 0: the number whose square is a
Sqrt(a) == [neg |-> a.neg, n |-> a.n, root |-> TRUE]

\* the square of |v|
SquareOf(v) == IF v.root THEN v.n ELSE v.n * v.n

\* math.atan2(y, x): the angle of the ray through (x, y), with the sign of
\* y; atan2(+-0, x) is +-0 for x > 0 or x = +0 and +-pi for x < 0 or x = -0
Atan2(y, x) ==
    LET ys == SquareOf(y)
        xs == SquareOf(x)
        g == GCD(xs, ys)
    IN  IF xs = 0 /\ ys = 0
        THEN [neg |-> y.neg, x |-> IF x.neg THEN -1 ELSE 1, y |-> 0]
        ELSE [neg |-> y.neg,
              x |-> IF x.neg THEN -(xs \div g) ELSE xs \div g,
              y |-> ys \div g]

(***************************************************************************)
(* Transforms: the 16-entry row-major array of Matrix3D.asArray() and the  *)
(* translation vector (centimetres)                                        *)
(***************************************************************************)
\* m[i] with the 0-based index of the source
At(m, i) == m[i + 1]

asArray(transform) == transform.m

matrix_to_rpy_mut_transposed(transform) ==
    LET m == asArray(transform)
        r11 == At(m, 0)
        r12 == At(m, 1)
        r13 == At(m, 2)
        r23 == At(m, 6)
        r33 == At(m, 10)
    IN  [roll  |-> Atan2(r23, r33),
         pitch |-> Atan2(Neg(r13), Sqrt(Plus(Times(r23, r23), Times(r33, r33)))),
         yaw   |-> Atan2(r12, r11)]

matrix_to_rpy_mut_sign(transform) ==
    LET m == asArray(transform)
        r11 == At(m, 0)
        r21 == At(m, 4)
        r31 == At(m, 8)
        r32 == At(m, 9)
        r33 == At(m, 10)
    IN  [roll  |-> Atan2(r32, r33),
         pitch |-> Atan2(r31, Sqrt(Plus(Times(r32, r32), Times(r33, r33)))),
         yaw   |-> Atan2(r21, r11)]

matrix_to_rpy(transform) ==
    LET m == asArray(transform)
        r11 == At(m, 0)
        r21 == At(m, 4)
        r31 == At(m, 8)
        r32 == At(m, 9)
        r33 == At(m, 10)
    IN  [roll  |-> Atan2(r32, r33),
         pitch |-> Atan2(Neg(r31), Sqrt(Plus(Times(r32, r32), Times(r33, r33)))),
         yaw   |-> Atan2(r21, r11)]

CM_TO_M == Float(1, -2)

\* line 40: the tuple returned
Pose(x, y, z, rpy) ==
    [x |-> x, y |-> y, z |-> z, roll |-> rpy.roll, pitch |-> rpy.pitch, yaw |-> rpy.yaw]

get_component_origin_rpy_mut_axes(transform) ==
    LET translation == transform.translation
    IN  Pose(Mul(translation.x, CM_TO_M),
             Mul(translation.z, CM_TO_M),
             Mul(translation.y, Float(1, -3)),
             matrix_to_rpy(transform))

\* get_component_origin_rpy once occurrence.transform2 has been read
get_component_origin_rpy(transform) ==
    LET translation == transform.translation
    IN  Pose(Mul(translation.x, CM_TO_M),
             Mul(translation.y, CM_TO_M),
             Mul(translation.z, CM_TO_M),
             matrix_to_rpy(transform))

(***************************************************************************)
(* Occurrences as the host presents them.  A read that the host refuses    *)
(* raises; which reads of an occurrence raise is part of the occurrence:   *)
(*   nameOk       occurrence.name                                          *)
(*   transformOk  occurrence.transform2 (and the reads on the transform)   *)
(*   componentOk  occurrence.component                                     *)
(*   phys.failAt  the first host call on the physical properties that      *)
(*                raises (0: none, 1: getPhysicalProperties, 2: mass,      *)
(*                3: volume, 4: centerOfMass, 5: getXYZMomentsOfInertia,   *)
(*                6: getXYZProductsOfInertia)                              *)
(* A name is [id, len]: who it names and how many characters it has.       *)
(***************************************************************************)
CM3_TO_M3 == Float(1, -6)

KGCM2_TO_KGM2 == Float(1, -4)

\* what a call gives back: a value, or an exception; out is what it printed
Return(value, out) == [raised |-> FALSE, value |-> value, out |-> out]

Raise(out) == [raised |-> TRUE, value |-> None, out |-> out]

\* the host calls of lines 74-91 all succeed
PhysReadable(occurrence) == occurrence.componentOk /\ occurrence.phys.failAt = 0

\* lines 111-121
DefaultMassProperties ==
    [mass |-> Float(1, -1),
     center_of_mass |-> <<Float(0, 0), Float(0, 0), Float(0, 0)>>,
     inertia_xx |-> Float(1, -3),
     inertia_xy |-> Float(0, 0),
     inertia_xz |-> Float(0, 0),
     inertia_yy |-> Float(1, -3),
     inertia_yz |-> Float(0, 0),
     inertia_zz |-> Float(1, -3),
     volume |-> Float(1, -3)]

\* lines 77-106
ConvertMassProperties(phys_props) ==
    LET com == phys_props.centerOfMass
        inertia == phys_props.moments
        prod_inertia == phys_props.products
    IN  [mass |-> phys_props.mass,
         center_of_mass |-> <<Mul(com.x, CM_TO_M), Mul(com.y, CM_TO_M), Mul(com.z, CM_TO_M)>>,
         inertia_xx |-> Mul(At(inertia, 0), KGCM2_TO_KGM2),
         inertia_xy |-> Mul(At(prod_inertia, 0), KGCM2_TO_KGM2),
         inertia_xz |-> Mul(At(prod_inertia, 1), KGCM2_TO_KGM2),
         inertia_yy |-> Mul(At(inertia, 1), KGCM2_TO_KGM2),
         inertia_yz |-> Mul(At(prod_inertia, 2), KGCM2_TO_KGM2),
         inertia_zz |-> Mul(At(inertia, 2), KGCM2_TO_KGM2),
         volume |-> Mul(phys_props.volume, CM3_TO_M3)]

get_mass_properties_mut_order(occurrence) ==
    IF PhysReadable(occurrence)
    THEN Return([ConvertMassProperties(occurrence.phys) EXCEPT
                    !.inertia_xz = Mul(At(occurrence.phys.products, 2), KGCM2_TO_KGM2),
                    !.inertia_yz = Mul(At(occurrence.phys.products, 1), KGCM2_TO_KGM2)],
                <<>>)
    ELSE Return(DefaultMassProperties, <<>>)

get_mass_properties(occurrence) ==
    IF PhysReadable(occurrence)
    THEN Return(ConvertMassProperties(occurrence.phys), <<>>)
    ELSE \* except Exception: the message reads occurrence.name
         IF occurrence.nameOk
         THEN Return(DefaultMassProperties,
                     <<[kind |-> "mass_error", name |-> occurrence.name]>>)
         ELSE Raise(<<>>)

(***************************************************************************)
(* get_all_component_data                                                  *)
(***************************************************************************)
\* lines 140-154
ComponentInfo(occ, pose, mass_props) ==
    [name |-> occ.name,
     component |-> occ.componentName,
     x |-> pose.x, y |-> pose.y, z |-> pose.z,
     roll |-> pose.roll, pitch |-> pose.pitch, yaw |-> pose.yaw,
     mass |-> mass_props.mass,
     center_of_mass |-> mass_props.center_of_mass,
     inertia_xx |-> mass_props.inertia_xx,
     inertia_xy |-> mass_props.inertia_xy,
     inertia_xz |-> mass_props.inertia_xz,
     inertia_yy |-> mass_props.inertia_yy,
     inertia_yz |-> mass_props.inertia_yz,
     inertia_zz |-> mass_props.inertia_zz,
     volume |-> mass_props.volume]

\* the try block of lines 134-155 for one occurrence: the record appended,
\* or the exception that leaves the block; out is what was printed on the way
\* lines 138-155: after get_mass_properties has given mp
AfterMassProperties(occ, mp) ==
    IF mp.raised THEN Raise(mp.out)
    ELSE IF ~occ.nameOk \/ ~occ.componentOk THEN Raise(mp.out)
    ELSE Return(ComponentInfo(occ, get_component_origin_rpy(occ.transform), mp.value),
                mp.out)

TryOccurrence(occ) ==
    IF ~occ.transformOk THEN Raise(<<>>)
    ELSE AfterMassProperties(occ, get_mass_properties(occ))

\* the record of a try block that ended normally joins components_data
Appended(acc, t) ==
    [raised |-> FALSE, value |-> Append(acc.value, t.value), out |-> acc.out \o t.out]

\* lines 157-158: except Exception, whose message reads occ.name
Except(occ, acc, t) ==
    IF occ.nameOk
    THEN [raised |-> FALSE, value |-> acc.value,
          out |-> acc.out \o t.out
                    \o <<[kind |-> "processing_error", name |-> occ.name]>>]
    ELSE [raised |-> TRUE, value |-> None, out |-> acc.out \o t.out]

NoExcept(occ, acc, t) == [raised |-> TRUE, value |-> None, out |-> acc.out \o t.out]

AfterTry(occ, acc, t) == IF ~t.raised THEN Appended(acc, t) ELSE Except(occ, acc, t)

AfterTryNoExcept(occ, acc, t) ==
    IF ~t.raised THEN Appended(acc, t) ELSE NoExcept(occ, acc, t)

\* one iteration of the loop of lines 133-158 without its except clause
LoopBody_mut_no_except(occ, acc) == AfterTryNoExcept(occ, acc, TryOccurrence(occ))

\* one iteration of the loop of lines 133-158; acc is components_data and
\* the output so far
LoopBody(occ, acc) == AfterTry(occ, acc, TryOccurrence(occ))

RECURSIVE Loop(_, _, _)
Loop(all_occurrences, i, acc) ==
    IF acc.raised \/ i > Len(all_occurrences) THEN acc
    ELSE Loop(all_occurrences, i + 1, LoopBody(all_occurrences[i], acc))

get_all_component_data(d) ==
    IF ~d.rootOk THEN Raise(<<>>)
    ELSE IF ~d.occsOk THEN Raise(<<>>)
    ELSE Loop(d.occurrences, 1, Return(<<>>, <<>>))

(***************************************************************************)
(* display_results.  A text is the sequence of its lines, each line        *)
(* [kind, of, len]: what it shows, of which component (0: none), and its   *)
(* length in characters without the newline that ends it.                  *)
(***************************************************************************)
MSG_LIMIT == 2000

PART_LIMIT == 1900

Line(kind, of, len) == [kind |-> kind, of |-> of, len |-> len]

\* len(text): every line and its newline
RECURSIVE LenBetween(_, _, _)
LenBetween(text, lo, hi) ==
    IF lo > hi THEN 0
    ELSE IF lo = hi THEN text[lo].len + 1
    ELSE LET mid == (lo + hi) \div 2
         IN  LenBetween(text, lo, mid) + LenBetween(text, mid + 1, hi)

TextLen(text) == LenBetween(text, 1, Len(text))

\* len(f"{a:.6f}{sep}{b:.6f}{sep}{c:.6f}") without the separators
XyzLen(comp) == Fmt6Len(comp.x) + Fmt6Len(comp.y) + Fmt6Len(comp.z)

RpyLen(comp) ==
    Fmt6LenAngle(comp.roll) + Fmt6LenAngle(comp.pitch) + Fmt6LenAngle(comp.yaw)

\* lines 177-188 for the i-th component
ComponentLines(comp, i) ==
    << Line("component", i, 11 + comp.name.len),
       Line("base", i, 6 + comp.component.len),
       Line("position", i, 18 + XyzLen(comp)),
       Line("rpy", i, 15 + RpyLen(comp)),
       Line("mass", i, 9 + Fmt6Len(comp.mass)),
       Line("center_of_mass", i,
            24 + Fmt6Len(comp.center_of_mass[1]) + Fmt6Len(comp.center_of_mass[2])
               + Fmt6Len(comp.center_of_mass[3])),
       Line("inertia", i,
            31 + Fmt6Len(comp.inertia_xx) + Fmt6Len(comp.inertia_yy)
               + Fmt6Len(comp.inertia_zz)),
       Line("urdf_origin", i, 36 + (XyzLen(comp) + 2) + (RpyLen(comp) + 2)),
       Line("blank", i, 0) >>

RECURSIVE AllComponentLines(_, _)
AllComponentLines(components_data, i) ==
    IF i > Len(components_data) THEN <<>>
    ELSE ComponentLines(components_data[i], i) \o AllComponentLines(components_data, i + 1)

\* lines 172-188: results
ResultsText(components_data) ==
    << Line("found", 0, 18 + Digits(Len(components_data))),
       Line("blank", 0, 0),
       Line("format", 0, 54),
       Line("rule", 0, 80),
       Line("blank", 0, 0) >>
    \o AllComponentLines(components_data, 1)

\* results.split('\n'): the lines, and the empty string after the last newline
SplitLines(text) == Append(text, Line("end", 0, 0))

MessageBox(kind, part, body) == [kind |-> kind, part |-> part, body |-> body]

SplitStep_mut_len(line, st) ==
    IF TextLen(st.current_message) < PART_LIMIT
    THEN [st EXCEPT !.current_message = Append(@, line)]
    ELSE [current_message |-> <<line>>,
          message_count |-> st.message_count + 1,
          boxes |-> Append(st.boxes,
                           MessageBox("PART", st.message_count, st.current_message))]

SplitStep_mut_drop(line, st) ==
    IF TextLen(st.current_message) + line.len + 1 < PART_LIMIT
    THEN [st EXCEPT !.current_message = Append(@, line)]
    ELSE [current_message |-> <<>>,
          message_count |-> st.message_count + 1,
          boxes |-> Append(st.boxes,
                           MessageBox("PART", st.message_count, st.current_message))]

\* lines 200-205: one iteration of the loop over lines
SplitStep(line, st) ==
    IF TextLen(st.current_message) + line.len + 1 < PART_LIMIT
    THEN [st EXCEPT !.current_message = Append(@, line)]
    ELSE [current_message |-> <<line>>,
          message_count |-> st.message_count + 1,
          boxes |-> Append(st.boxes,
                           MessageBox("PART", st.message_count, st.current_message))]

\* lines 199-205: the loop (its second test never holds: it makes the
\* state of an iteration be computed before the next one starts)
RECURSIVE SplitLoop(_, _, _)
SplitLoop(lines, i, st) ==
    IF i > Len(lines) \/ st.message_count < 1 THEN st
    ELSE SplitLoop(lines, i + 1, SplitStep(lines[i], st))

\* lines 195-209: the boxes shown for a text longer than MSG_LIMIT
\* lines 207-209: the last part, when it is not empty
LastPart(st) ==
    IF st.current_message # <<>>
    THEN Append(st.boxes, MessageBox("PART", st.message_count, st.current_message))
    ELSE st.boxes

SplitBoxes(results) ==
    LastPart(SplitLoop(SplitLines(results), 1,
                       [current_message |-> <<>>, message_count |-> 1, boxes |-> <<>>]))

\* lines 212-247: the header and one <link> block per component
UrdfPrint(components_data) ==
    <<[kind |-> "urdf_header", name |-> [id |-> 0, len |-> 0]]>>
    \o [i \in 1..Len(components_data) |->
          [kind |-> "urdf_link", name |-> components_data[i].name]]

\* display_results: the message boxes shown and the lines printed
\* lines 190-209: the boxes that show results
ShowResults(results) ==
    IF TextLen(results) <= MSG_LIMIT
    THEN <<MessageBox("results", 0, results)>>
    ELSE SplitBoxes(results)

display_results(components_data) ==
    IF components_data = <<>>
    THEN [boxes |-> <<MessageBox("No components found", 0, <<>>)>>, out |-> <<>>]
    ELSE [boxes |-> ShowResults(ResultsText(components_data)),
          out |-> UrdfPrint(components_data)]

(***************************************************************************)
(* run                                                                     *)
(***************************************************************************)
\* a call of one of the script's functions, with the list it is given
Call(fn, components_data) == [fn |-> fn, components_data |-> components_data]

Outcome(boxes, out, called) == [boxes |-> boxes, out |-> out, calls |-> called]

\* lines 19-21: display_results has shown shw
Displayed(data, shw) ==
    Outcome(shw.boxes, data.out \o shw.out,
            <<Call("get_all_component_data", <<>>), Call("display_results", data.value)>>)

\* lines 18-24: after get_all_component_data; an exception it raises is
\* caught by the except clause, which shows 'Failed:...'
AfterCollect(data) ==
    IF data.raised
    THEN Outcome(<<MessageBox("Failed", 0, <<>>)>>, data.out,
                 <<Call("get_all_component_data", <<>>)>>)
    ELSE Displayed(data, display_results(data.value))

Prefixed(shown, r) == Outcome(shown \o r.boxes, r.out, r.calls)

run_mut_no_return(d) ==
    Prefixed(IF ~d.active THEN <<MessageBox("No active design found", 0, <<>>)>> ELSE <<>>,
             AfterCollect(get_all_component_data(d)))

\* run: what the user sees, what is printed, which functions were called
run(d) ==
    IF ~d.active
    THEN Outcome(<<MessageBox("No active design found", 0, <<>>)>>, <<>>, <<>>)
    ELSE AfterCollect(get_all_component_data(d))

(***************************************************************************)
(* Inputs of the decomposition: rotations built from known angles, given   *)
(* as the primitive integer ray <<c, s>> the angle points along            *)
(***************************************************************************)
MaxLeg == 12

MaxCoord == 3

\* the largest r in lo..hi with r * r <= n
RECURSIVE RootIn(_, _, _)
RootIn(n, lo, hi) ==
    IF lo >= hi THEN lo
    ELSE LET mid == (lo + hi + 1) \div 2
         IN  IF mid * mid <= n THEN RootIn(n, mid, hi) ELSE RootIn(n, lo, mid - 1)

Hyp(a) == RootIn(a[1] * a[1] + a[2] * a[2], 0, Abs(a[1]) + Abs(a[2]))

\* angles whose sine and cosine are rational: c*c + s*s is a square
IsAngle(a) ==
    /\ a # <<0, 0>>
    /\ GCD(Abs(a[1]), Abs(a[2])) = 1
    /\ Hyp(a) * Hyp(a) = a[1] * a[1] + a[2] * a[2]

\* roll and yaw range over (-pi, pi]
Angles == {a \in (-MaxLeg..MaxLeg) \X (-MaxLeg..MaxLeg) : IsAngle(a)}

\* pitch strictly inside (-pi/2, pi/2): positive cosine
Pitches == {a \in Angles : a[1] > 0}

\* the angle along the ray a, in (-pi, pi]
AngleOf(a) == [neg |-> a[2] < 0, x |-> a[1] * Abs(a[1]), y |-> a[2] * a[2]]

\* two angles are the same number (0.0 and -0.0 are)
SameAngle(a, b) ==
    /\ a.x = b.x
    /\ a.y = b.y
    /\ (a.neg = b.neg \/ (a.y = 0 /\ a.x > 0))

\* 3x3 matrices as functions [1..3 -> [1..3 -> entries]]
M3(r1, r2, r3) == <<r1, r2, r3>>

FromInts(rows) == [i \in 1..3 |-> [j \in 1..3 |-> Num(rows[i][j])]]

\* the product of two matrices of floats, each entry summed left to right
MatMul(A, B) ==
    [i \in 1..3 |-> [j \in 1..3 |->
        Plus(Plus(Times(A[i][1], B[1][j]), Times(A[i][2], B[2][j])),
             Times(A[i][3], B[3][j]))]]

\* elementary rotations, each scaled by the hypotenuse of its angle
Rx(a) ==
    M3(<<Num(Hyp(a)), Num(0), Num(0)>>,
       <<Num(0), Num(a[1]), Neg(Num(a[2]))>>,
       <<Num(0), Num(a[2]), Num(a[1])>>)

Ry(a) ==
    M3(<<Num(a[1]), Num(0), Num(a[2])>>,
       <<Num(0), Num(Hyp(a)), Num(0)>>,
       <<Neg(Num(a[2])), Num(0), Num(a[1])>>)

Rz(a) ==
    M3(<<Num(a[1]), Neg(Num(a[2])), Num(0)>>,
       <<Num(a[2]), Num(a[1]), Num(0)>>,
       <<Num(0), Num(0), Num(Hyp(a))>>)

\* R = Rz(yaw) * Ry(pitch) * Rx(roll), scaled by the product of hypotenuses
RotationOf(roll, pitch, yaw) == MatMul(Rz(yaw), MatMul(Ry(pitch), Rx(roll)))

Identity == FromInts(<< <<1, 0, 0>>, <<0, 1, 0>>, <<0, 0, 1>> >>)

\* rotations with rational entries (over 3) that no rational angles give
RationalRotations ==
    { FromInts(<< <<2, -2, 1>>, <<2, 1, -2>>, <<1, 2, 2>> >>),
      FromInts(<< <<2, 1, -2>>, <<1, 2, 2>>, <<2, -2, 1>> >>) }

Coords == {100 * k : k \in -1..MaxCoord} \cup {35}

Translations == [x : Coords, y : Coords, z : Coords]

\* the transform with rotation R (entries over den) and translation t (cm)
TransformOf(R, den, t) ==
    [m |-> << R[1][1], R[1][2], R[1][3], Num(t.x * den),
              R[2][1], R[2][2], R[2][3], Num(t.y * den),
              R[3][1], R[3][2], R[3][3], Num(t.z * den),
              Num(0),  Num(0),  Num(0),  Num(den) >>,
     den |-> den,
     translation |-> [x |-> Float(t.x, 0), y |-> Float(t.y, 0), z |-> Float(t.z, 0)]]

\* theta in {0, pi/4, pi/2, pi} with cos and sin to three decimals
YawThetas ==
    { [theta |-> <<1, 0>>,  c |-> 1000,  s |-> 0],
      [theta |-> <<1, 1>>,  c |-> 707,   s |-> 707],
      [theta |-> <<0, 1>>,  c |-> 0,     s |-> 1000],
      [theta |-> <<-1, 0>>, c |-> -1000, s |-> 0] }

PureYaw(y) ==
    M3(<<Num(y.c), Neg(Num(y.s)), Num(0)>>,
       <<Num(y.s), Num(y.c), Num(0)>>,
       <<Num(0), Num(0), Num(1000)>>)

\* a transform and what it was built from
RpyInput(kind, r, p, y, t, transform) ==
    [kind |-> kind, roll |-> r, pitch |-> p, yaw |-> y, t |-> t, transform |-> transform]

InitRpy ==
    /\ pc = "call"
    /\ \/ \E r \in Angles, p \in Pitches, y \in Angles :
             LET t == [x |-> 100, y |-> 200, z |-> 300]
             IN  arg = RpyInput("rpy", r, p, y, t,
                                TransformOf(RotationOf(r, p, y),
                                            Hyp(r) * Hyp(p) * Hyp(y), t))
       \/ \E y \in YawThetas, t \in Translations :
             arg = RpyInput("yaw", <<1, 0>>, <<1, 0>>, y.theta, t,
                            TransformOf(PureYaw(y), 1000, t))
       \/ \E R \in RationalRotations, t \in Translations :
             arg = RpyInput("matrix", <<1, 0>>, <<1, 0>>, <<1, 0>>, t,
                            TransformOf(R, 3, t))
    /\ ret = None
    /\ design = None
    /\ ui = <<>>
    /\ stdout = <<>>
    /\ calls = <<>>

\* one call of get_component_origin_rpy on an occurrence with this transform
Decompose ==
    /\ pc = "call"
    /\ ret' = get_component_origin_rpy(arg.transform)
    /\ pc' = "ret"
    /\ UNCHANGED <<design, ui, stdout, calls, arg>>

NextRpy == Decompose

SpecRpy == InitRpy /\ [][NextRpy]_vars

\* C5: a pure rotation by theta about Z, theta in {0, pi/4, pi/2, pi},
\* decomposes to roll = 0, pitch = 0, yaw = theta (the identity to all zero).
C5_PureYaw ==
    (pc = "ret" /\ arg.kind = "yaw") =>
        /\ SameAngle(ret.roll, AngleOf(<<1, 0>>))
        /\ SameAngle(ret.pitch, AngleOf(<<1, 0>>))
        /\ SameAngle(ret.yaw, AngleOf(arg.yaw))

C5_Witness ==
    /\ pc = "ret"
    /\ arg.kind = "yaw"
    /\ arg.yaw = <<1, 1>>
    /\ ret.yaw = [neg |-> FALSE, x |-> 1, y |-> 1]
    /\ ret.pitch = [neg |-> TRUE, x |-> 1, y |-> 0]

\* out is raw * 10^-d to d + 6 decimals
ScaledBy(out, raw, d) ==
    /\ out.neg = raw.neg
    /\ Nearest(out, d + 6) = Nearest(raw, 6)

\* C6: the position is the translation times 0.01 on each axis, whatever
\* the rotation entries are.
C6_Position ==
    pc = "ret" =>
        /\ ScaledBy(ret.x, arg.transform.translation.x, 2)
        /\ ScaledBy(ret.y, arg.transform.translation.y, 2)
        /\ ScaledBy(ret.z, arg.transform.translation.z, 2)

C6_Witness ==
    /\ pc = "ret"
    /\ arg.t = [x |-> 100, y |-> 200, z |-> 300]
    /\ arg.kind = "matrix"
    /\ ret.x = Float(1, 0)
    /\ ret.y = Float(2, 0)
    /\ ret.z = Float(3, 0)

\* C8: R = Rz(yaw) * Ry(pitch) * Rx(roll) with pitch strictly inside
\* (-pi/2, pi/2) decomposes to the angles it was built from.
C8_RoundTrip ==
    (pc = "ret" /\ arg.kind = "rpy") =>
        /\ SameAngle(ret.roll, AngleOf(arg.roll))
        /\ SameAngle(ret.pitch, AngleOf(arg.pitch))
        /\ SameAngle(ret.yaw, AngleOf(arg.yaw))

C8_Witness ==
    /\ pc = "ret"
    /\ arg.kind = "rpy"
    /\ arg.roll = <<-3, 4>>
    /\ arg.pitch = <<4, -3>>
    /\ arg.yaw = <<-4, -3>>
    /\ ret.roll = [neg |-> FALSE, x |-> -9, y |-> 16]
    /\ ret.pitch = [neg |-> TRUE, x |-> 16, y |-> 9]
    /\ ret.yaw = [neg |-> TRUE, x |-> -16, y |-> 9]

(***************************************************************************)
(* Mass properties: get_mass_properties on raw values of the host          *)
(***************************************************************************)
\* every second occurrence is unrotated
SampleTransform(id) ==
    LET t == [x |-> 100 * id, y |-> -200, z |-> 300]
    IN  IF id % 2 = 0 THEN TransformOf(Identity, 1, t)
        ELSE TransformOf(RotationOf(<<3, 4>>, <<4, -3>>,
                                    IF id % 4 = 1 THEN <<0, 1>> ELSE <<-4, -3>>),
                         IF id % 4 = 1 THEN 25 ELSE 125, t)

Occurrence(id, len, nameOk, transformOk, componentOk, phys) ==
    [name |-> [id |-> id, len |-> len],
     componentName |-> [id |-> id, len |-> len - 2],
     nameOk |-> nameOk,
     transformOk |-> transformOk,
     componentOk |-> componentOk,
     transform |-> SampleTransform(id),
     phys |-> phys]

\* raw values (kg, cm, cm^3, kg.cm^2), a different pair for every quantity
RawPhys ==
    [failAt : {0, 3},
     mass : {Float(25, -1), Float(3, 0)},
     volume : {Float(1, 6), Float(125, 0)},
     centerOfMass : [x : {Float(10, 0), Float(-5, 0)},
                     y : {Float(20, 0), Float(0, 0)},
                     z : {Float(30, 0), Float(-15, -1)}],
     moments : {<<Float(1, 4), Float(3, 0), Float(6, 2)>>, <<Float(2, 0), Float(4, 1), Float(5, 0)>>},
     products : {<<Float(7, 0), Float(-8, 0), Float(9, 3)>>, <<Float(0, 0), Float(11, 0), Float(-12, 1)>>}]

InitMass ==
    /\ pc = "call"
    /\ \E ph \in RawPhys : arg = Occurrence(1, 6, TRUE, TRUE, TRUE, ph)
    /\ ret = None
    /\ design = None
    /\ ui = <<>>
    /\ stdout = <<>>
    /\ calls = <<>>

\* one call of get_mass_properties
MassProperties ==
    /\ pc = "call"
    /\ ret' = get_mass_properties(arg)
    /\ stdout' = ret'.out
    /\ pc' = "ret"
    /\ UNCHANGED <<design, ui, calls, arg>>

NextMass == MassProperties

SpecMass == InitMass /\ [][NextMass]_vars

\* C7: when the host raises nothing, every output is its own raw value
\* scaled: centre of mass by 0.01, volume by 1e-6, the six inertia terms
\* by 1e-4 (xx, yy, zz from the moments, xy, xz, yz from the products),
\* and the mass unchanged.
C7_UnitScaling ==
    (pc = "ret" /\ arg.phys.failAt = 0) =>
        LET out == ret.value
            raw == arg.phys
        IN  /\ ~ret.raised
            /\ out.mass = raw.mass
            /\ ScaledBy(out.volume, raw.volume, 6)
            /\ ScaledBy(out.center_of_mass[1], raw.centerOfMass.x, 2)
            /\ ScaledBy(out.center_of_mass[2], raw.centerOfMass.y, 2)
            /\ ScaledBy(out.center_of_mass[3], raw.centerOfMass.z, 2)
            /\ ScaledBy(out.inertia_xx, raw.moments[1], 4)
            /\ ScaledBy(out.inertia_yy, raw.moments[2], 4)
            /\ ScaledBy(out.inertia_zz, raw.moments[3], 4)
            /\ ScaledBy(out.inertia_xy, raw.products[1], 4)
            /\ ScaledBy(out.inertia_xz, raw.products[2], 4)
            /\ ScaledBy(out.inertia_yz, raw.products[3], 4)

\* raw inertia 10000 gives 1.0 and raw volume 1e6 gives 1.0
C7_Witness ==
    /\ pc = "ret"
    /\ arg.phys.failAt = 0
    /\ arg.phys.moments[1] = Float(1, 4)
    /\ arg.phys.volume = Float(1, 6)
    /\ ret.value.inertia_xx = Float(1, 0)
    /\ ret.value.volume = Float(1, 0)

(***************************************************************************)
(* run on a design                                                         *)
(***************************************************************************)
MaxOccs == 2

FailPoints == {0, 1, 6}

SamplePhys(id, failAt) ==
    [failAt |-> failAt,
     mass |-> Float(25 * id, -1),
     volume |-> Float(125 * id, 0),
     centerOfMass |-> [x |-> Float(10, 0), y |-> Float(-5 * id, 0), z |-> Float(0, 0)],
     moments |-> <<Float(1, 4), Float(3 * id, 0), Float(6, 2)>>,
     products |-> <<Float(7, 0), Float(-8, 0), Float(9, 3)>>]

\* which reads of an occurrence the host refuses
Refusals ==
    [nameOk : BOOLEAN, transformOk : BOOLEAN, componentOk : BOOLEAN, failAt : FailPoints]

\* the occurrences of an assembly, the i-th one with the refusals rs[i]
OccurrencesOf(rs) ==
    [i \in 1..Len(rs) |->
        Occurrence(i, 4 + i, rs[i].nameOk, rs[i].transformOk, rs[i].componentOk,
                   SamplePhys(i, rs[i].failAt))]

\* app.activeProduct is None
NoDesign == [active |-> FALSE, rootOk |-> FALSE, occsOk |-> FALSE, occurrences |-> <<>>]

Design(rootOk, occsOk, occurrences) ==
    [active |-> TRUE, rootOk |-> rootOk, occsOk |-> occsOk, occurrences |-> occurrences]

Init ==
    /\ pc = "start"
    /\ \/ design = NoDesign
       \/ design = Design(FALSE, TRUE, <<>>)
       \/ design = Design(TRUE, FALSE, <<>>)
       \/ \E n \in 0..MaxOccs : \E rs \in [1..n -> Refusals] :
             design = Design(TRUE, TRUE, OccurrencesOf(rs))
    /\ ui = <<>>
    /\ stdout = <<>>
    /\ calls = <<>>
    /\ arg = None
    /\ ret = None

\* the script is run once
Run ==
    /\ pc = "start"
    /\ LET r == run(design)
       IN  /\ ui' = r.boxes
           /\ stdout' = r.out
           /\ calls' = r.calls
    /\ pc' = "done"
    /\ UNCHANGED <<design, arg, ret>>

Next == Run

Spec == Init /\ [][Next]_vars

\* the list get_all_component_data returned, when it returned
Returned == Len(calls) = 2 /\ calls[2].fn = "display_results"

Collected == calls[2].components_data

NamesOf(records) == [i \in 1..Len(records) |-> records[i].name]

Traversed == pc = "done" /\ design.active /\ design.rootOk /\ design.occsOk

FailedShown == \E k \in 1..Len(ui) : ui[k].kind = "Failed"

\* C1: whichever transform reads raise, get_all_component_data returns
\* normally, with exactly one record per occurrence whose transform read
\* succeeded, in traversal order.
C1_TransformFailuresSkipped ==
    Traversed =>
        /\ Returned
        /\ NamesOf(Collected)
             = NamesOf(SelectSeq(design.occurrences, LAMBDA o : o.transformOk))

\* C2: an occurrence whose transform is readable and whose physical
\* properties cannot be read gets a record with the default mass values and
\* the pose of its own transform.
C2_DefaultMassRecord ==
    Traversed =>
        \A i \in 1..Len(design.occurrences) :
            LET occ == design.occurrences[i]
            IN  (occ.transformOk /\ ~PhysReadable(occ)) =>
                    /\ Returned
                    /\ \E j \in 1..Len(Collected) :
                          Collected[j] = ComponentInfo(occ,
                                            get_component_origin_rpy(occ.transform),
                                            DefaultMassProperties)

\* C3: with no active design, run shows the one message box 'No active
\* design found', calls neither get_all_component_data nor display_results,
\* and prints nothing.
C3_NoActiveDesign ==
    (pc = "done" /\ ~design.active) =>
        /\ ui = <<MessageBox("No active design found", 0, <<>>)>>
        /\ calls = <<>>
        /\ stdout = <<>>

C3_Witness ==
    /\ pc = "done"
    /\ ~design.active
    /\ Len(ui) = 1
    /\ ui[1].kind = "No active design found"

\* C4 as stated: with an active design, whichever host reads raise, run
\* reaches display_results and never shows the 'Failed:' box.
C4_NeverFailed ==
    (pc = "done" /\ design.active) => (Returned /\ ~FailedShown)

\* C4 amended: with an active design, run ends in the 'Failed:' box exactly
\* when the read of the root component, of the occurrence list or of an
\* occurrence's name raises; otherwise, whichever transform, component or
\* physical-property reads raise, it reaches display_results with one record
\* for every occurrence whose transform and component are readable, in
\* order, and shows what display_results shows for them.
C4_FatalOnlyOnRootListOrName ==
    (pc = "done" /\ design.active) =>
        LET fatal == \/ ~design.rootOk
                     \/ ~design.occsOk
                     \/ \E i \in 1..Len(design.occurrences) : ~design.occurrences[i].nameOk
        IN  /\ FailedShown <=> fatal
            /\ Returned <=> ~fatal
            /\ ~fatal =>
                 /\ NamesOf(Collected)
                      = NamesOf(SelectSeq(design.occurrences,
                                          LAMBDA o : o.transformOk /\ o.componentOk))
                 /\ ui = display_results(Collected).boxes

C4_Witness ==
    /\ pc = "done"
    /\ design.active
    /\ Len(design.occurrences) = 2
    /\ ~design.occurrences[1].transformOk
    /\ design.occurrences[2].phys.failAt = 6
    /\ Returned
    /\ Len(Collected) = 1
    /\ Collected[1].mass = Float(1, -1)
    /\ ~FailedShown

(***************************************************************************)
(* display_results on a list of records                                    *)
(***************************************************************************)
MaxComps == 4

NameLens == {5, 599, 762, 1900}

\* the record get_all_component_data builds for occurrence id, with the
\* default mass values for every second one
SampleComponent(id, len) ==
    LET occ == Occurrence(id, len, TRUE, TRUE, TRUE, SamplePhys(id, 0))
    IN  ComponentInfo(occ, get_component_origin_rpy(occ.transform),
                      IF id % 2 = 0 THEN DefaultMassProperties
                      ELSE ConvertMassProperties(occ.phys))

InitDisplay ==
    /\ pc = "call"
    /\ \E n \in 0..MaxComps : \E lens \in [1..n -> NameLens] :
          arg = [i \in 1..n |-> SampleComponent(i, lens[i])]
    /\ ret = None
    /\ design = None
    /\ ui = <<>>
    /\ stdout = <<>>
    /\ calls = <<>>

\* one call of display_results(ui, components_data)
DisplayResults ==
    /\ pc = "call"
    /\ LET r == display_results(arg)
       IN  /\ ui' = r.boxes
           /\ stdout' = r.out
    /\ pc' = "ret"
    /\ UNCHANGED <<design, calls, arg, ret>>

NextDisplay == DisplayResults

SpecDisplay == InitDisplay /\ [][NextDisplay]_vars

\* the bodies of the boxes, one after the other
RECURSIVE Bodies(_)
Bodies(boxes) == IF boxes = <<>> THEN <<>> ELSE Head(boxes).body \o Bodies(Tail(boxes))

\* C9: for a non-empty list, the boxes in display order hold every line of
\* the results text once and in order, in one box when the text has at most
\* 2000 characters and otherwise in boxes PART 1, PART 2, ..., where the
\* empty string that follows the last newline ends the last box.
C9_AllLinesShown ==
    (pc = "ret" /\ arg # <<>>) =>
        LET results == ResultsText(arg)
        IN  IF TextLen(results) <= MSG_LIMIT
            THEN /\ Len(ui) = 1
                 /\ ui[1].kind = "results"
                 /\ Bodies(ui) = results
            ELSE /\ \A k \in 1..Len(ui) : ui[k].kind = "PART" /\ ui[k].part = k
                 /\ Bodies(ui) = Append(results, Line("end", 0, 0))

C9_Witness ==
    /\ pc = "ret"
    /\ Len(arg) = 2
    /\ TextLen(ResultsText(arg)) = MSG_LIMIT + 1
    /\ Len(ui) = 2
    /\ \A k \in 1..Len(ui) : ui[k].kind = "PART" /\ ui[k].part = k

\* C10 as stated: every PART box has a non-empty body shorter than 1900
\* characters.
C10_PartsShort ==
    pc = "ret" =>
        \A k \in 1..Len(ui) :
            ui[k].kind = "PART" =>
                (ui[k].body # <<>> /\ TextLen(ui[k].body) < PART_LIMIT)

\* C10 amended: every PART box has a non-empty body, which is shorter than
\* 1900 characters unless it is a single line.
C10_PartsShortOrOneLine ==
    pc = "ret" =>
        \A k \in 1..Len(ui) :
            ui[k].kind = "PART" =>
                /\ ui[k].body # <<>>
                /\ (TextLen(ui[k].body) < PART_LIMIT \/ Len(ui[k].body) = 1)

C10_Witness ==
    /\ pc = "ret"
    /\ \E k \in 1..Len(ui) :
          /\ ui[k].kind = "PART"
          /\ Len(ui[k].body) = 1
          /\ TextLen(ui[k].body) >= PART_LIMIT
    /\ \E k \in 1..Len(ui) :
          /\ ui[k].kind = "PART"
          /\ Len(ui[k].body) > 1
          /\ TextLen(ui[k].body) < PART_LIMIT

=============================================================================
